---- MODULE Spec2Model ----
(***************************************************************************)
(* Clothing Store API (backend/main.py): categories and products stored in *)
(* a SQLite file through SQLAlchemy sessions, served by FastAPI handlers.  *)
(*                                                                         *)
(* Spec      every request runs to completion before the next one starts:  *)
(*           one action per handler.                                       *)
(* SpecConc  requests of two workers interleave at their storage           *)
(*           statements (query, commit, refresh) and at the session's      *)
(*           close.  It starts with one product stored and serves the      *)
(*           handlers that have more than one way out: get_product,        *)
(*           update_product, delete_product and create_category.           *)
(***************************************************************************)
EXTENDS Integers, Sequences, FiniteSets, TLC

VARIABLES
    products,    \* rows of table "products"
    categories,  \* rows of table "categories"
    resp,        \* the last request served and its response
    written,     \* history: product id -> payload of the last successful write
    deleted,     \* history: product ids a delete_product has removed
    reqs,        \* SpecConc: each worker's request in flight
    sessions     \* SpecConc: live Session objects, id -> "open" | "closed"

vars == <<products, categories, resp, written, deleted, reqs, sessions>>

store == <<products, categories>>

(***************************************************************************)
(* Bounds of the model.                                                    *)
(***************************************************************************)
MaxId == 2          \* largest product id create_product may generate
MaxCategories == 2  \* largest category id create_category may generate

(***************************************************************************)
(* HTTP status codes.                                                      *)
(***************************************************************************)
HTTP_200_OK == 200
HTTP_201_CREATED == 201
HTTP_404_NOT_FOUND == 404
HTTP_500_INTERNAL_SERVER_ERROR == 500

(***************************************************************************)
(* Request payloads (pydantic schemas).  price stands for a float: the     *)
(* values are whole numbers, which a float and a REAL column hold exactly. *)
(***************************************************************************)
ProductFields == {"name", "description", "price", "category_id", "image_url", "stock"}

ProductCreate ==
    { [name |-> "Blue Tee", description |-> "Cotton", price |-> 19, category_id |-> 1,
       image_url |-> "http://x/1.jpg", stock |-> 10],
      [name |-> "Red Tee", description |-> "Cotton", price |-> 25, category_id |-> 1,
       image_url |-> "http://x/2.jpg", stock |-> 10],
      [name |-> "Blue Tee", description |-> "Linen", price |-> 19, category_id |-> 2,
       image_url |-> "http://x/1.jpg", stock |-> 0] }

CategoryCreate ==
    { [name |-> "Shirts", description |-> "Casual shirts"],
      [name |-> "Pants", description |-> "Trousers"] }

\* Python's None
None == [none |-> TRUE]

\* the threads that serve requests
Workers == {"w1", "w2"}

\* a worker with no request
Idle == [pc |-> "idle"]

(***************************************************************************)
(* Storage: a table is a set of rows, a row a record with an id.           *)
(***************************************************************************)
Ids(table) == {r.id : r \in table}

SetMax(S) == CHOOSE m \in S : \A x \in S : x <= m

\* Column(Integer, primary_key=True) on SQLite is the rowid: a new row gets
\* one more than the largest rowid in the table (1 for an empty table).
NextRowidByCount(table) == Cardinality(table) + 1

NextRowid(table) == IF table = {} THEN 1 ELSE SetMax(Ids(table)) + 1

\* Product(**product.dict()), its id set by the INSERT
Product(id, product) ==
    [id |-> id, name |-> product.name, description |-> product.description,
     price |-> product.price, category_id |-> product.category_id,
     image_url |-> product.image_url, stock |-> product.stock]

\* Category(**category.dict()), its id set by the INSERT
Category(id, category) ==
    [id |-> id, name |-> category.name, description |-> category.description]

\* ProductResponse / CategoryResponse with from_attributes = True
ProductResponse(row) ==
    [id |-> row.id, name |-> row.name, description |-> row.description,
     price |-> row.price, category_id |-> row.category_id,
     image_url |-> row.image_url, stock |-> row.stock]

CategoryResponse(row) ==
    [id |-> row.id, name |-> row.name, description |-> row.description]

\* the payload fields of a product row or response
PayloadOf(row) == [f \in ProductFields |-> row[f]]

\* db.query(M).filter(M.id == id).first()
QueryFirstAny(table, id) ==
    IF table = {} THEN None ELSE CHOOSE r \in table : TRUE

QueryFirst(table, id) ==
    IF \E r \in table : r.id = id THEN CHOOSE r \in table : r.id = id ELSE None

\* rows in rowid order, as SQLite scans a table without ORDER BY
RECURSIVE InRowidOrder(_)
InRowidOrder(table) ==
    IF table = {} THEN << >>
    ELSE LET last == CHOOSE r \in table : \A q \in table : q.id <= r.id
         IN  Append(InRowidOrder(table \ {last}), last)

\* db.query(M).all()
QueryAll(table) == InRowidOrder(table)

\* .offset(skip).limit(limit): SQLite takes a negative LIMIT as no limit and
\* a negative OFFSET as 0
OffsetLimitInclusive(rows, skip, limit) ==
    LET off == IF skip < 0 THEN 0 ELSE skip
        cnt == IF limit < 0 THEN Len(rows) ELSE limit + 1
        hi  == IF off + cnt < Len(rows) THEN off + cnt ELSE Len(rows)
    IN  SubSeq(rows, off + 1, hi)

OffsetLimit(rows, skip, limit) ==
    LET off == IF skip < 0 THEN 0 ELSE skip
        cnt == IF limit < 0 THEN Len(rows) ELSE limit
        hi  == IF off + cnt < Len(rows) THEN off + cnt ELSE Len(rows)
    IN  SubSeq(rows, off + 1, hi)

\* .filter(Product.category_id == category_id)
FilterByCategoryAtLeast(table, category_id) ==
    {r \in table : r.category_id >= category_id}

FilterByCategory(table, category_id) == {r \in table : r.category_id = category_id}

\* for key, value in product.dict().items(): setattr(db_product, key, value)
SetAttrsKeepStock(row, product) ==
    [row EXCEPT !.name = product.name, !.description = product.description,
                !.price = product.price, !.category_id = product.category_id,
                !.image_url = product.image_url]

SetAttrs(row, product) ==
    [row EXCEPT !.name = product.name, !.description = product.description,
                !.price = product.price, !.category_id = product.category_id,
                !.image_url = product.image_url, !.stock = product.stock]

\* The columns the session's flush puts in UPDATE ... SET: those whose value
\* now differs from the value the session loaded.
Dirty(loaded, current) == {f \in ProductFields : current[f] # loaded[f]}

\* db.commit() of a modified object: UPDATE products SET <dirty columns>
\* WHERE id = loaded.id, applied to the table as it is at commit time.
FlushUpdateNoWhere(table, loaded, current) ==
    LET dirty == Dirty(loaded, current)
    IN  {[f \in DOMAIN r |-> IF f \in dirty THEN current[f] ELSE r[f]] : r \in table}

FlushUpdate(table, loaded, current) ==
    LET dirty == Dirty(loaded, current)
    IN  {IF r.id = loaded.id
            THEN [f \in DOMAIN r |-> IF f \in dirty THEN current[f] ELSE r[f]]
            ELSE r : r \in table}

\* db.delete(product); db.commit(): DELETE FROM products WHERE id = row.id
FlushDeleteAll(table, row) == {}

FlushDelete(table, row) == {r \in table : r.id # row.id}

\* Column(String, unique=True): the INSERT of a category is refused when a
\* row already has the name
UniqueViolationNever(table, name) == FALSE

UniqueViolation(table, name) == \E r \in table : r.name = name

(***************************************************************************)
(* Responses.                                                              *)
(***************************************************************************)
Response(op, args, status, body) ==
    [op |-> op, args |-> args, status |-> status, body |-> body]

\* raise HTTPException(status_code=404, detail="Product not found")
NotFound == [detail |-> "Product not found"]

\* an exception no handler catches: the server answers 500
InternalServerError == [detail |-> "Internal Server Error"]

SeqToSet(s) == {s[i] : i \in 1..Len(s)}

\* response_model=List[ProductResponse] / List[CategoryResponse]
ProductResponses(rows) == [i \in 1..Len(rows) |-> ProductResponse(rows[i])]

CategoryResponses(rows) == [i \in 1..Len(rows) |-> CategoryResponse(rows[i])]

\* history update: `product` is the payload of the last write to `id`
Wrote(id, product) ==
    [i \in DOMAIN written \cup {id} |-> IF i = id THEN product ELSE written[i]]

Forgot(id) == [i \in DOMAIN written \ {id} |-> written[i]]

(***************************************************************************)
(* Initial state: the tables exist and are empty (create_all on a new      *)
(* database file), nothing has been served.                                *)
(***************************************************************************)
Init ==
    /\ products = {}
    /\ categories = {}
    /\ resp = Response("none", None, 0, None)
    /\ written = << >>
    /\ deleted = {}
    /\ reqs = [w \in Workers |-> Idle]
    /\ sessions = << >>

(***************************************************************************)
(* Handlers, one request at a time.  get_db gives each request a Session   *)
(* of its own and closes it when the handler is left, so no Session is     *)
(* live between two requests: reqs and sessions stay empty.                *)
(***************************************************************************)
create_category(category) ==
    /\ IF UniqueViolation(categories, category.name)
          THEN \* db.commit() raises IntegrityError; nothing is inserted
               /\ resp' = Response("create_category", [category |-> category],
                                   HTTP_500_INTERNAL_SERVER_ERROR, InternalServerError)
               /\ UNCHANGED categories
          ELSE LET id == NextRowid(categories)
                   tbl == categories \cup {Category(id, category)}
               IN  /\ id <= MaxCategories
                   /\ categories' = tbl
                   /\ resp' = Response("create_category", [category |-> category],
                                       HTTP_201_CREATED,
                                       CategoryResponse(QueryFirst(tbl, id)))
    /\ UNCHANGED <<products, written, deleted, reqs, sessions>>

get_categories ==
    /\ resp' = Response("get_categories", None, HTTP_200_OK,
                        CategoryResponses(QueryAll(categories)))
    /\ UNCHANGED <<store, written, deleted, reqs, sessions>>

create_product(product) ==
    LET id == NextRowid(products)
        tbl == products \cup {Product(id, product)}
    IN  /\ id <= MaxId
        /\ products' = tbl
        /\ resp' = Response("create_product", [product |-> product],
                            HTTP_201_CREATED, ProductResponse(QueryFirst(tbl, id)))
        /\ written' = Wrote(id, product)
        /\ UNCHANGED <<categories, deleted, reqs, sessions>>

get_products(skip, limit) ==
    /\ resp' = Response("get_products", [skip |-> skip, limit |-> limit], HTTP_200_OK,
                        ProductResponses(OffsetLimit(QueryAll(products), skip, limit)))
    /\ UNCHANGED <<store, written, deleted, reqs, sessions>>

get_product(product_id) ==
    LET product == QueryFirst(products, product_id)
    IN  /\ resp' = IF product = None
                      THEN Response("get_product", [product_id |-> product_id],
                                    HTTP_404_NOT_FOUND, NotFound)
                      ELSE Response("get_product", [product_id |-> product_id],
                                    HTTP_200_OK, ProductResponse(product))
        /\ UNCHANGED <<store, written, deleted, reqs, sessions>>

get_products_by_category(category_id) ==
    /\ resp' = Response("get_products_by_category", [category_id |-> category_id],
                        HTTP_200_OK,
                        ProductResponses(
                            QueryAll(FilterByCategory(products, category_id))))
    /\ UNCHANGED <<store, written, deleted, reqs, sessions>>

update_product(product_id, product) ==
    LET args == [product_id |-> product_id, product |-> product]
        db_product == QueryFirst(products, product_id)
    IN  IF db_product = None
           THEN /\ resp' = Response("update_product", args, HTTP_404_NOT_FOUND, NotFound)
                /\ UNCHANGED <<store, written, deleted, reqs, sessions>>
           ELSE LET tbl == FlushUpdate(products, db_product,
                                       SetAttrs(db_product, product))
                IN  /\ products' = tbl
                    /\ resp' = Response("update_product", args, HTTP_200_OK,
                                        ProductResponse(QueryFirst(tbl, product_id)))
                    /\ written' = Wrote(product_id, product)
                    /\ UNCHANGED <<categories, deleted, reqs, sessions>>

delete_product(product_id) ==
    LET args == [product_id |-> product_id]
        product == QueryFirst(products, product_id)
    IN  IF product = None
           THEN /\ resp' = Response("delete_product", args, HTTP_404_NOT_FOUND, NotFound)
                /\ UNCHANGED <<store, written, deleted, reqs, sessions>>
           ELSE /\ products' = FlushDelete(products, product)
                /\ resp' = Response("delete_product", args, HTTP_200_OK,
                                    [message |-> "Product deleted successfully"])
                /\ written' = Forgot(product_id)
                /\ deleted' = deleted \cup {product_id}
                /\ UNCHANGED <<categories, reqs, sessions>>

root ==
    /\ resp' = Response("root", None, HTTP_200_OK,
                        [message |-> "Welcome to Clothing Store API"])
    /\ UNCHANGED <<store, written, deleted, reqs, sessions>>

\* request arguments
ProductIds == 1..(MaxId + 1)
CategoryIds == {1, 2, 3}
Pages == ((0..MaxId) \X (0..MaxId)) \cup {<<-1, MaxId>>, <<0, -1>>}

Next ==
    \/ \E category \in CategoryCreate : create_category(category)
    \/ get_categories
    \/ \E product \in ProductCreate : create_product(product)
    \/ \E page \in Pages : get_products(page[1], page[2])
    \/ \E product_id \in ProductIds : get_product(product_id)
    \/ \E category_id \in CategoryIds : get_products_by_category(category_id)
    \/ \E product_id \in ProductIds, product \in ProductCreate :
           update_product(product_id, product)
    \/ \E product_id \in ProductIds : delete_product(product_id)
    \/ root

Spec == Init /\ [][Next]_vars

(***************************************************************************)
(* Vocabulary of the properties.                                           *)
(***************************************************************************)
\* the stored product with this id, for an id that is stored
RowOf(table, id) == CHOOSE r \in table : r.id = id

Others(table, id) == {r \in table : r.id # id}

ByProductId(r) == r.op \in {"get_product", "update_product", "delete_product"}

\* the product whose rank in increasing id order is n (1 for the smallest id)
Ranked(table, n) ==
    CHOOSE r \in table : Cardinality({q \in table : q.id < r.id}) = n - 1

Min(a, b) == IF a < b THEN a ELSE b

\* what get_products answers for skip and limit in the current state
Page(skip, limit) ==
    ProductResponses(OffsetLimit(QueryAll(products), skip, limit))

\* the pages of size limit from skip on, one after the other
RECURSIVE PagesFrom(_, _)
PagesFrom(skip, limit) ==
    IF skip >= Cardinality(products) THEN << >>
    ELSE Page(skip, limit) \o PagesFrom(skip + limit, limit)

(***************************************************************************)
(* C1: get_product of a stored product returns, field for field, the       *)
(* payload of the most recent successful write to its id (the create, or   *)
(* the last update since).                                                 *)
(***************************************************************************)
C1_GetReturnsLastWrite ==
    /\ DOMAIN written = Ids(products)
    /\ \A id \in Ids(products) :
           PayloadOf(ProductResponse(QueryFirst(products, id))) = written[id]
    /\ (resp.op = "get_product" /\ resp.args.product_id \in Ids(products)) =>
           /\ resp.status = HTTP_200_OK
           /\ resp.body.id = resp.args.product_id
           /\ PayloadOf(resp.body) = written[resp.args.product_id]

\* a product read back under an id that an earlier product held before
C1_Witness ==
    /\ resp.op = "get_product"
    /\ resp.status = HTTP_200_OK
    /\ resp.args.product_id \in deleted
    /\ Cardinality(products) = 2

(***************************************************************************)
(* C2 as stated: get_product, update_product and delete_product on an id   *)
(* that was never created, or that was deleted, answer 404 and leave the   *)
(* stored products and categories unchanged.                               *)
(***************************************************************************)
C2_NeverCreatedOrDeletedIsNotFound ==
    [][(ByProductId(resp') /\ (\/ resp'.args.product_id \notin Ids(products)
                               \/ resp'.args.product_id \in deleted)) =>
           /\ resp'.status = HTTP_404_NOT_FOUND
           /\ resp'.body = NotFound
           /\ store' = store]_vars

(***************************************************************************)
(* C2 amended: get_product, update_product and delete_product on an id     *)
(* that no stored product has at the time of the call (never created, or   *)
(* deleted and not given to a later product) answer 404 "Product not       *)
(* found" and leave the stored products and categories unchanged.          *)
(***************************************************************************)
C2_AbsentIsNotFound ==
    [][(ByProductId(resp') /\ resp'.args.product_id \notin Ids(products)) =>
           /\ resp'.status = HTTP_404_NOT_FOUND
           /\ resp'.body = NotFound
           /\ store' = store]_vars

\* a second delete of the same id, with another product still stored
C2_Witness ==
    /\ resp.op = "delete_product"
    /\ resp.status = HTTP_404_NOT_FOUND
    /\ resp.args.product_id \in deleted
    /\ products # {}

(***************************************************************************)
(* C3: update_product on a stored id replaces every payload field by the   *)
(* supplied payload, keeps the id, returns the stored record, and changes  *)
(* no other product and no category.                                       *)
(***************************************************************************)
C3_UpdateIsFullReplace ==
    [][(resp'.op = "update_product" /\ resp'.args.product_id \in Ids(products)) =>
           LET id == resp'.args.product_id
           IN  /\ resp'.status = HTTP_200_OK
               /\ Ids(products') = Ids(products)
               /\ Cardinality(products') = Cardinality(products)
               /\ PayloadOf(RowOf(products', id)) = resp'.args.product
               /\ resp'.body = ProductResponse(RowOf(products', id))
               /\ resp'.body.id = id
               /\ Others(products', id) = Others(products, id)
               /\ categories' = categories]_vars

\* an update that changed the product, next to another product
C3_Witness ==
    /\ resp.op = "update_product"
    /\ resp.status = HTTP_200_OK
    /\ Cardinality(products) = 2
    /\ \E r \in products : r.id # resp.args.product_id
                           /\ PayloadOf(r) # resp.args.product
    /\ categories # {}

(***************************************************************************)
(* C4: delete_product on a stored id removes that row and no other,        *)
(* answers the confirmation message, and changes no category.              *)
(***************************************************************************)
C4_DeleteRemovesOneRow ==
    [][(resp'.op = "delete_product" /\ resp'.args.product_id \in Ids(products)) =>
           LET id == resp'.args.product_id
           IN  /\ resp'.status = HTTP_200_OK
               /\ resp'.body = [message |-> "Product deleted successfully"]
               /\ id \notin Ids(products')
               /\ Cardinality(products') = Cardinality(products) - 1
               /\ products' = Others(products, id)
               /\ categories' = categories]_vars

\* a delete that left another product in place
C4_Witness ==
    /\ resp.op = "delete_product"
    /\ resp.status = HTTP_200_OK
    /\ products # {}
    /\ categories # {}

(***************************************************************************)
(* C5: create_category with an unused name adds one category and returns   *)
(* its name and description; with a name some category has it fails and    *)
(* changes nothing; no two categories ever share a name.                   *)
(***************************************************************************)
NamesUnique(table) == \A r, q \in table : r.name = q.name => r = q

CreateCategoryStep ==
    resp'.op = "create_category" =>
        LET category == resp'.args.category
        IN  IF \E r \in categories : r.name = category.name
               THEN /\ resp'.status = HTTP_500_INTERNAL_SERVER_ERROR
                    /\ store' = store
               ELSE /\ resp'.status = HTTP_201_CREATED
                    /\ categories \subseteq categories'
                    /\ Cardinality(categories') = Cardinality(categories) + 1
                    /\ resp'.body \in {CategoryResponse(r) : r \in categories' \ categories}
                    /\ resp'.body.name = category.name
                    /\ resp'.body.description = category.description
                    /\ resp'.body.id \notin Ids(categories)
                    /\ products' = products

C5_CategoryNamesUnique ==
    /\ []NamesUnique(categories)
    /\ [][CreateCategoryStep]_vars

\* a refused create_category, with two categories stored
C5_Witness ==
    /\ resp.op = "create_category"
    /\ resp.status = HTTP_500_INTERNAL_SERVER_ERROR
    /\ Cardinality(categories) = 2

(***************************************************************************)
(* C6: get_products_by_category(c) answers 200 with exactly the stored     *)
(* products whose category_id is c, each once: the empty list when none    *)
(* matches, also when no category has id c; it changes nothing stored.     *)
(***************************************************************************)
ByCategoryAnswer ==
    resp.op = "get_products_by_category" =>
        LET c == resp.args.category_id
            matching == {ProductResponse(r) : r \in {q \in products : q.category_id = c}}
        IN  /\ resp.status = HTTP_200_OK
            /\ SeqToSet(resp.body) = matching
            /\ Len(resp.body) = Cardinality(matching)

C6_ByCategoryExact ==
    /\ []ByCategoryAnswer
    /\ [][resp'.op = "get_products_by_category" => store' = store]_vars

\* an empty answer for a category id no category has, while products of
\* other categories are stored
C6_Witness ==
    /\ resp.op = "get_products_by_category"
    /\ resp.body = << >>
    /\ resp.args.category_id \notin Ids(categories)
    /\ categories # {}
    /\ Cardinality(products) = 2

(***************************************************************************)
(* C7: with N products stored, get_products(k, m) for k, m >= 0 returns    *)
(* min(m, N - k) records for k < N and none for k >= N: the k-th to the    *)
(* (k+m-1)-th in id order.  Pages with disjoint ranges share no product,   *)
(* and consecutive pages together list every product once.                 *)
(***************************************************************************)
C7_Pagination ==
    (resp.op = "get_products" /\ resp.args.skip >= 0 /\ resp.args.limit >= 0) =>
        LET N == Cardinality(products)
            k == resp.args.skip
            m == resp.args.limit
        IN  /\ resp.status = HTTP_200_OK
            /\ Len(resp.body) = IF k < N THEN Min(m, N - k) ELSE 0
            /\ \A i \in 1..Len(resp.body) :
                   resp.body[i] = ProductResponse(Ranked(products, k + i))
            /\ \A k2 \in 0..N, m2 \in 0..(N + 1) :
                   (k + m <= k2 \/ k2 + m2 <= k) =>
                       {r.id : r \in SeqToSet(resp.body)}
                           \cap {r.id : r \in SeqToSet(Page(k2, m2))} = {}
            /\ (k = 0 /\ m >= 1) =>
                   /\ Len(PagesFrom(0, m)) = N
                   /\ {r.id : r \in SeqToSet(PagesFrom(0, m))} = Ids(products)
                   /\ SubSeq(PagesFrom(0, m), 1, Len(resp.body)) = resp.body

\* the second page of size one, of two products
C7_Witness ==
    /\ resp.op = "get_products"
    /\ resp.args.skip = 1
    /\ resp.args.limit = 1
    /\ Cardinality(products) = 2
    /\ Len(resp.body) = 1

(***************************************************************************)
(* C9: create_product succeeds whether or not category_id names a stored   *)
(* category: it adds one product under an id no stored product has,        *)
(* returns the payload's fields, and changes no other product and no       *)
(* category; product ids are pairwise distinct in every state.             *)
(***************************************************************************)
IdsDistinct(table) == \A r, q \in table : r.id = q.id => r = q

CreateProductStep ==
    resp'.op = "create_product" =>
        /\ resp'.status = HTTP_201_CREATED
        /\ products \subseteq products'
        /\ Cardinality(products') = Cardinality(products) + 1
        /\ resp'.body \in {ProductResponse(r) : r \in products' \ products}
        /\ resp'.body.id \notin Ids(products)
        /\ PayloadOf(resp'.body) = resp'.args.product
        /\ categories' = categories

C9_CreateProductFreshId ==
    /\ []IdsDistinct(products)
    /\ [][CreateProductStep]_vars

\* a product created under a dangling category_id, next to another product,
\* under an id that was used before
C9_Witness ==
    /\ resp.op = "create_product"
    /\ resp.status = HTTP_201_CREATED
    /\ resp.args.product.category_id \notin Ids(categories)
    /\ categories # {}
    /\ resp.body.id \in deleted
    /\ Cardinality(products) = 2

(***************************************************************************)
(* Concurrent requests.  A worker's request goes through                   *)
(*   "query"    the handler's SELECT by id (get, update, delete)           *)
(*   "commit"   db.commit(): the flush's INSERT / UPDATE / DELETE          *)
(*   "refresh"  db.refresh(): the SELECT by primary key after the commit   *)
(*   "finally"  the handler has returned or raised; get_db's finally runs  *)
(*   "done"     the response is out                                        *)
(* SQLite runs each statement and each commit one at a time.               *)
(***************************************************************************)
\* db = SessionLocal(): a Session object no request holds yet
SessionLocal(live) == CHOOSE n \in 1..(Cardinality(live) + 1) : n \notin live

\* get_db: try: yield db / finally: db.close() -- the state of the Session
\* once get_db is left, whatever the handler's outcome was
get_db_exit_without_finally(status) ==
    IF status \in {HTTP_404_NOT_FOUND, HTTP_500_INTERNAL_SERVER_ERROR}
       THEN "open" ELSE "closed"

get_db_exit(status) == "closed"

InFlight(op, args, pc, session, loaded) ==
    [pc |-> pc, op |-> op, args |-> args, session |-> session, loaded |-> loaded]

\* the handler is left with this status: only get_db's finally remains
Leaving(r, status) ==
    [pc |-> "finally", op |-> r.op, status |-> status, session |-> r.session]

\* a request arrives: get_db opens its Session, the handler starts
Begin(w, op, args) ==
    /\ reqs[w].pc = "idle"
    /\ LET db == SessionLocal(DOMAIN sessions)
       IN  /\ sessions' = [s \in DOMAIN sessions \cup {db} |->
                              IF s = db THEN "open" ELSE sessions[s]]
           /\ reqs' = [reqs EXCEPT ![w] =
                          InFlight(op, args,
                                   IF op = "create_category" THEN "commit" ELSE "query",
                                   db, None)]
    /\ UNCHANGED <<store, resp, written, deleted>>

\* db.query(Product).filter(Product.id == product_id).first(), and the
\* handler's "if not product: raise HTTPException(404)"
Query(w) ==
    LET r == reqs[w]
    IN  /\ r.pc = "query"
        /\ sessions[r.session] = "open"
        /\ LET product == QueryFirst(products, r.args.product_id)
           IN  reqs' = [reqs EXCEPT ![w] =
                   IF product = None THEN Leaving(r, HTTP_404_NOT_FOUND)
                   ELSE IF r.op = "get_product" THEN Leaving(r, HTTP_200_OK)
                   ELSE InFlight(r.op, r.args, "commit", r.session, product)]
        /\ UNCHANGED <<store, resp, written, deleted, sessions>>

\* update_product: setattr of every field, then db.commit().  The flush
\* sends an UPDATE only when a column is dirty; an UPDATE that matches no
\* row raises StaleDataError.
CommitUpdate(w) ==
    LET r == reqs[w]
        current == SetAttrs(r.loaded, r.args.product)
    IN  /\ r.pc = "commit"
        /\ r.op = "update_product"
        /\ sessions[r.session] = "open"
        /\ IF Dirty(r.loaded, current) # {} /\ r.loaded.id \notin Ids(products)
              THEN /\ reqs' = [reqs EXCEPT ![w] =
                                  Leaving(r, HTTP_500_INTERNAL_SERVER_ERROR)]
                   /\ UNCHANGED <<products, written>>
              ELSE /\ products' = FlushUpdate(products, r.loaded, current)
                   /\ written' = IF r.loaded.id \in Ids(products)
                                    THEN Wrote(r.loaded.id, r.args.product)
                                    ELSE written
                   /\ reqs' = [reqs EXCEPT ![w] =
                                  InFlight(r.op, r.args, "refresh", r.session, r.loaded)]
        /\ UNCHANGED <<categories, resp, deleted, sessions>>

\* update_product: db.refresh(db_product) raises InvalidRequestError when
\* the row is gone; otherwise the handler returns the refreshed row
Refresh(w) ==
    LET r == reqs[w]
    IN  /\ r.pc = "refresh"
        /\ sessions[r.session] = "open"
        /\ reqs' = [reqs EXCEPT ![w] =
               IF QueryFirst(products, r.loaded.id) = None
                  THEN Leaving(r, HTTP_500_INTERNAL_SERVER_ERROR)
                  ELSE Leaving(r, HTTP_200_OK)]
        /\ UNCHANGED <<store, resp, written, deleted, sessions>>

\* delete_product: db.delete(product); db.commit().  A DELETE that matches
\* no row is a warning only, and the handler returns its message.
CommitDelete(w) ==
    LET r == reqs[w]
    IN  /\ r.pc = "commit"
        /\ r.op = "delete_product"
        /\ sessions[r.session] = "open"
        /\ products' = FlushDelete(products, r.loaded)
        /\ written' = Forgot(r.loaded.id)
        /\ deleted' = deleted \cup {r.loaded.id}
        /\ reqs' = [reqs EXCEPT ![w] = Leaving(r, HTTP_200_OK)]
        /\ UNCHANGED <<categories, resp, sessions>>

\* create_category: db.add; db.commit() raises IntegrityError on a used
\* name; db.refresh finds the row, since no handler deletes a category
CommitCategory(w) ==
    LET r == reqs[w]
    IN  /\ r.pc = "commit"
        /\ r.op = "create_category"
        /\ sessions[r.session] = "open"
        /\ IF UniqueViolation(categories, r.args.category.name)
              THEN /\ reqs' = [reqs EXCEPT ![w] =
                                  Leaving(r, HTTP_500_INTERNAL_SERVER_ERROR)]
                   /\ UNCHANGED categories
              ELSE /\ NextRowid(categories) <= MaxCategories
                   /\ categories' = categories
                          \cup {Category(NextRowid(categories), r.args.category)}
                   /\ reqs' = [reqs EXCEPT ![w] = Leaving(r, HTTP_201_CREATED)]
        /\ UNCHANGED <<products, resp, written, deleted, sessions>>

\* get_db's finally: db.close()
Close(w) ==
    LET r == reqs[w]
    IN  /\ r.pc = "finally"
        /\ sessions' = [sessions EXCEPT ![r.session] = get_db_exit(r.status)]
        /\ reqs' = [reqs EXCEPT ![w].pc = "done"]
        /\ UNCHANGED <<store, resp, written, deleted>>

\* the response is out; the request and its Session are garbage
End(w) ==
    LET r == reqs[w]
    IN  /\ r.pc = "done"
        /\ reqs' = [reqs EXCEPT ![w] = Idle]
        /\ sessions' = [s \in DOMAIN sessions \ {r.session} |-> sessions[s]]
        /\ UNCHANGED <<store, resp, written, deleted>>

\* the database a first create_product leaves
InitConc ==
    /\ \E product \in ProductCreate :
           /\ products = {Product(NextRowid({}), product)}
           /\ written = [id \in {NextRowid({})} |-> product]
    /\ categories = {}
    /\ resp = Response("none", None, 0, None)
    /\ deleted = {}
    /\ reqs = [w \in Workers |-> Idle]
    /\ sessions = << >>

NextConc ==
    \E w \in Workers :
        \/ \E category \in CategoryCreate :
               Begin(w, "create_category", [category |-> category])
        \/ \E product_id \in ProductIds :
               Begin(w, "get_product", [product_id |-> product_id])
        \/ \E product_id \in ProductIds, product \in ProductCreate :
               Begin(w, "update_product", [product_id |-> product_id, product |-> product])
        \/ \E product_id \in ProductIds :
               Begin(w, "delete_product", [product_id |-> product_id])
        \/ Query(w)
        \/ CommitUpdate(w)
        \/ Refresh(w)
        \/ CommitDelete(w)
        \/ CommitCategory(w)
        \/ Close(w)
        \/ End(w)

SpecConc == InitConc /\ [][NextConc]_vars

(***************************************************************************)
(* C8: every request in flight has a Session of its own, open while the    *)
(* handler runs and shared with no other request; once the request is      *)
(* done its Session is closed, whether the handler returned, raised the    *)
(* 404 HTTPException or failed with a storage error at commit.             *)
(***************************************************************************)
C8_SessionScopedToRequest ==
    /\ \A w \in Workers :
           /\ reqs[w].pc # "idle" => reqs[w].session \in DOMAIN sessions
           /\ reqs[w].pc \in {"query", "commit", "refresh", "finally"} =>
                  sessions[reqs[w].session] = "open"
           /\ reqs[w].pc = "done" => sessions[reqs[w].session] = "closed"
    /\ \A w1, w2 \in Workers :
           (w1 # w2 /\ reqs[w1].pc # "idle" /\ reqs[w2].pc # "idle") =>
               reqs[w1].session # reqs[w2].session

\* one request done after a uniqueness violation at commit, another done
\* after the 404, while a category is stored
C8_Witness ==
    \E w1, w2 \in Workers :
        /\ reqs[w1].pc = "done"
        /\ reqs[w1].op = "create_category"
        /\ reqs[w1].status = HTTP_500_INTERNAL_SERVER_ERROR
        /\ reqs[w2].pc = "done"
        /\ reqs[w2].status = HTTP_404_NOT_FOUND
        /\ sessions[reqs[w1].session] = "closed"
        /\ sessions[reqs[w2].session] = "closed"

(***************************************************************************)
(* C10: with update_product requests interleaved at their query and their  *)
(* commit, no update of a product that is never deleted fails, and the     *)
(* stored product equals, in every field, the payload of the update that   *)
(* committed last: never a mixture of two payloads.                        *)
(***************************************************************************)
C10_LastWriterWins ==
    /\ \A id \in Ids(products) : PayloadOf(RowOf(products, id)) = written[id]
    /\ deleted = {} =>
           \A w \in Workers :
               (reqs[w].pc \in {"finally", "done"} /\ reqs[w].op = "update_product") =>
                   reqs[w].status # HTTP_500_INTERNAL_SERVER_ERROR

====
